---- MODULE Spec2Model ----
(***************************************************************************)
(* A model of the rank engine (statistics/ranks.rs), the Wilcoxon signed   *)
(* rank test (test/wilcoxon_w.rs) and the signed-rank distribution         *)
(* (distribution/signed_rank.rs) of stattest.                              *)
(*                                                                         *)
(* quantization of traits/quantization.rs and traits/bounded.rs.           *)
(*                                                                         *)
(* Numbers.  Every rank the code computes is an f64 of the form m/2 with   *)
(* m a small integer, which f64 represents exactly; so do the sums of      *)
(* rank * occurrence.  The model stores such a value DOUBLED, as the       *)
(* integer m: `resolved`, the entries of `ranks` and the two components of *)
(* `estimate` hold twice the value the code holds.  A quotient of two      *)
(* such values is kept as the pair [num, den].  The argument of cdf and    *)
(* pdf is a multiple x4/4 of a quarter, kept as x4.  The floating point    *)
(* arguments of quantize are fractions [num, den] as well, den = 0 with    *)
(* num > 0 standing for +infinity; on the inputs of the model the          *)
(* floating point quotient and product of quantize have the integer part   *)
(* of the exact ones (the exact value is either an integer computed        *)
(* without rounding, or at least 1/12 away from every integer, or beyond   *)
(* the range of Q).                                                        *)
(***************************************************************************)
EXTENDS Integers, Sequences, FiniteSets, TLC

VARIABLES
    call,         \* which entry point runs: "ranks", "paired", "weighted_paired", ...
    args,         \* the arguments of a call of a function of the distribution or
                  \* of quantize, and the type parameter Q of quantized_paired
    x,            \* first sample (for "ranks": the sequence to rank)
    y,            \* second sample
    occurrences,  \* the per-pair occurrence weights (all 1 for the unit weight `()`)
    pc,           \* position in the running function
    observations, \* ranks(): Vec<(usize, T::Item)>
    deltas,       \* _weighted_paired(): Vec<WeightedTuple<Q, O::Item>>
    tie_solver,   \* the ResolveTies iterator (resolved_ties / tie_solver)
    ranks,        \* ranks(): the output vector, doubled
    estimate,     \* _weighted_paired(): estimate, <<W-, W+>>, doubled
    zeroes,       \* _weighted_paired(): zeroes
    result        \* what the call returned

vars == <<call, args, x, y, occurrences, pc, observations, deltas, tie_solver,
          ranks, estimate, zeroes, result>>

----------------------------------------------------------------------------
(* Bounds of the model                                                     *)

MaxRankLen == 3
MaxRankVal == 3
MaxLen == 3
MaxVal == 3
MaxWeight == 2
MaxWLen == 2
MaxN == 21
MaxTie == 3
MaxExactN == 5
MaxBeyond == 3
MaxNumber == 7
MaxParts == 3
MaxSize == 5
MaxFactor == 5
MaxQLen == 2
MaxQVal == 2
MaxZeros == 3
MaxULen == 2
MaxUVal == 4

----------------------------------------------------------------------------
(* Helpers                                                                 *)

Min(a, b) == IF a < b THEN a ELSE b

RECURSIVE SumSeq(_)
SumSeq(s) == IF s = <<>> THEN 0 ELSE Head(s) + SumSeq(Tail(s))

RECURSIVE SumOver(_, _)
SumOver(S, f) ==
    IF S = {} THEN 0
    ELSE LET e == CHOOSE e \in S : TRUE IN f[e] + SumOver(S \ {e}, f)

Pow2(k) == 2 ^ k

SeqsUpTo(S, n) == UNION {[1..k -> S] : k \in 0..n}

----------------------------------------------------------------------------
(* traits/abs.rs                                                           *)

abs(v) == IF v < 0 THEN -v ELSE v

\* abs() of a value of the integer type Q on a build without overflow
\* checks: Q::MIN has no positive counterpart and stays Q::MIN.
wrapping_abs(v, Q) == IF v = Q.MIN THEN Q.MIN ELSE abs(v)

----------------------------------------------------------------------------
(* traits/bounded.rs, traits/quantization.rs                               *)

I8_MAX == 127
I8_MIN == -128
I16_MAX == 32767
I16_MIN == -32768

\* The integer types Q of the model, with the MIN and MAX of the language.
I8 == [name |-> "i8", MIN |-> I8_MIN, MAX |-> I8_MAX]
I16 == [name |-> "i16", MIN |-> I16_MIN, MAX |-> I16_MAX]

\* impl Bounded
UPPER_BOUND(Q) == Q.MAX
LOWER_BOUND(Q) == Q.MIN + 1

Fraction(num, den) == [num |-> num, den |-> den]

\* `self as $target` of the float num/den (den >= 0): the fraction is cut
\* off toward zero, and a value outside the target saturates at MIN or MAX.
to_primitive_round(num, den, Q) ==
    LET t == IF den = 0 THEN (IF num < 0 THEN Q.MIN ELSE Q.MAX)
             ELSE IF num >= 0 THEN (2 * num + den) \div (2 * den)
             ELSE 0 - ((2 * (0 - num) + den) \div (2 * den))
    IN IF t < Q.MIN THEN Q.MIN ELSE IF t > Q.MAX THEN Q.MAX ELSE t

to_primitive(num, den, Q) ==
    LET t == IF den = 0 THEN (IF num < 0 THEN Q.MIN ELSE Q.MAX)
             ELSE IF num >= 0 THEN num \div den
             ELSE 0 - ((0 - num) \div den)
    IN IF t < Q.MIN THEN Q.MIN ELSE IF t > Q.MAX THEN Q.MAX ELSE t

\* The two debug_assert! on the arguments: factor > 0 and
\* -factor <= value <= factor (the factor is never negative in the model).
quantize_asserts(value, factor) ==
    /\ factor.num > 0
    /\ abs(value.num) * factor.den <= factor.num * value.den

\* Lines 81-88: zero for zero, else value / factor * UPPER_BOUND converted
\* to Q.
quantize_value_asymmetric(value, factor, Q) ==
    IF value.num = 0 THEN 0
    ELSE to_primitive(value.num * factor.den
                          * (IF value.num < 0 THEN 0 - Q.MIN ELSE UPPER_BOUND(Q)),
                      value.den * factor.num, Q)

quantize_value(value, factor, Q) ==
    IF value.num = 0 THEN 0
    ELSE to_primitive(value.num * factor.den * UPPER_BOUND(Q),
                      value.den * factor.num, Q)

\* Q::quantize(value, factor): the value returned, and a panic as well
\* where a debug_assert! fails, which a build with debug assertions turns
\* into a panic and a build without them skips.
quantize(value, factor, Q) ==
    IF quantize_asserts(value, factor)
    THEN {[kind |-> "Value", value |-> quantize_value(value, factor, Q)]}
    ELSE {[kind |-> "panic"],
          [kind |-> "Value", value |-> quantize_value(value, factor, Q)]}

----------------------------------------------------------------------------
(* statistics/ranks.rs: WeightedTuple, Occurrence                          *)

WeightedTuple(value, occ) == [value |-> value, occurrences |-> occ]

\* Occurrence::to_occurrence for WeightedTuple: the occurrences field; the
\* unit weight () is stored as 1, which is what its to_occurrence returns.
to_occurrence(item) == item.occurrences

\* impl Abs for WeightedTuple: abs of the value, occurrences kept.
WeightedTuple_abs(item) == WeightedTuple(abs(item.value), item.occurrences)

\* impl PartialEq for WeightedTuple: the values alone are compared.
WeightedTuple_eq(a, b) == a.value = b.value

\* The `normalize` field of ResolveTies: the identity (From<J>, "id"),
\* WeightedTuple::abs (_weighted_paired, "abs"), or WeightedTuple::abs on
\* quantized values of the type named f, where Q::MIN can occur.
normalize(f, item) ==
    IF f = "id" THEN item
    ELSE IF f = "abs" THEN WeightedTuple_abs(item)
    ELSE WeightedTuple(wrapping_abs(item.value, CHOOSE Q \in {I8, I16} : Q.name = f),
                       item.occurrences)

----------------------------------------------------------------------------
(* statistics/ranks.rs: ResolveTies                                        *)

None == <<>>
Some(v) == <<v>>

ResolveTies_new(iter, f) ==
    [iter |-> iter, index |-> 0, resolved |-> 0, tie_correction |-> 0,
     current_normalized_item |-> None, normalize |-> f]

\* self.iter.clone().map(normalize).take_while(|x| *x == normalized_item)
\*     .map(|x| x.to_occurrence()).sum()
RECURSIVE take_while_sum(_, _, _)
take_while_sum(rest, f, normalized_item) ==
    IF rest = <<>> THEN 0
    ELSE IF WeightedTuple_eq(normalize(f, Head(rest)), normalized_item)
         THEN to_occurrence(normalize(f, Head(rest)))
                  + take_while_sum(Tail(rest), f, normalized_item)
         ELSE 0

\* let count = 1 + <the sum over the items that follow and are equal>
count_no_first(rest, f, normalized_item) ==
    take_while_sum(rest, f, normalized_item)

group_count(rest, f, normalized_item) ==
    1 + take_while_sum(rest, f, normalized_item)

\* self.resolved = (1.0 + count as f64) / 2.0 + self.index as f64   (doubled)
midrank_integer_division(count, index) == 2 * ((1 + count) \div 2) + 2 * index

midrank(count, index) == (1 + count) + 2 * index

\* self.tie_correction += count.pow(3) - count
tie_term_square(count) == count * count - count

tie_term(count) == count * count * count - count

\* self.current_normalized_item != Some(normalized_item)
new_group_always(current, normalized_item) == TRUE

new_group(current, normalized_item) ==
    \/ current = None
    \/ ~WeightedTuple_eq(current[1], normalized_item)

\* ResolveTies::next on a non-exhausted iterator: the iterator after the
\* call, and the pair (rank, item) it yields.
ResolveTies_next(rt) ==
    LET item == Head(rt.iter)
        rest == Tail(rt.iter)
        normalized_item == normalize(rt.normalize, item)
        count == group_count(rest, rt.normalize, normalized_item)
        after ==
            IF new_group(rt.current_normalized_item, normalized_item)
            THEN [rt EXCEPT !.iter = rest,
                            !.current_normalized_item = Some(normalized_item),
                            !.resolved = midrank(count, rt.index),
                            !.index = rt.index + count,
                            !.tie_correction = rt.tie_correction + tie_term(count)]
            ELSE [rt EXCEPT !.iter = rest]
    IN [rt |-> after, rank |-> after.resolved, item |-> item]

----------------------------------------------------------------------------
(* The sort stage.  sort_unstable_by leaves elements that compare Equal in *)
(* an order it does not specify: every arrangement that is ascending in    *)
(* the key is a possible outcome.                                          *)

RECURSIVE OrdersOf(_, _)
OrdersOf(idx, key) ==
    IF idx = {} THEN {<<>>}
    ELSE LET least == {i \in idx : \A j \in idx : key[i] <= key[j]}
         IN UNION {{<<i>> \o o : o \in OrdersOf(idx \ {i}, key)} : i \in least}

\* The arrangements of the positions 1..Len(key) a sort by key may leave.
sorted_orders(key) == OrdersOf(1..Len(key), key)

Arrange(s, o) == [i \in 1..Len(s) |-> s[o[i]]]

----------------------------------------------------------------------------
(* distribution/signed_rank.rs                                             *)

binomial2_with_diagonal(n) == (n * (n + 1)) \div 2

binomial2(n) == (n * (n - 1)) \div 2

RECURSIVE partitions_unbounded_part(_, _, _)
partitions_unbounded_part(number, parts, size) ==
    IF number = parts THEN 1
    ELSE IF number = 0 \/ parts = 0 \/ size = 0 THEN 0
    ELSE SumOver(1..number,
             [highest_part \in 1..number |->
                 partitions_unbounded_part(number - highest_part, parts - 1,
                                           highest_part)])

RECURSIVE partitions_distinct(_, _, _)
partitions_distinct(number, parts, size) ==
    IF number = parts THEN 1
    ELSE IF number = 0 \/ parts = 0 \/ size = 0 THEN 0
    ELSE LET top == Min(number, size)
         IN SumOver(1..top,
                [highest_part \in 1..top |->
                    partitions_distinct(number - highest_part, parts - 1,
                                        highest_part - 1)])

RECURSIVE partitions(_, _, _)
partitions(number, parts, size) ==
    IF number = parts THEN 1
    ELSE IF number = 0 \/ parts = 0 \/ size = 0 THEN 0
    ELSE LET top == Min(number, size)
         IN SumOver(1..top,
                [highest_part \in 1..top |->
                    partitions(number - highest_part, parts - 1, highest_part)])

\* The `sum` of the Exact arm of cdf for sample size n at r.
\* The calls partitions(i, n, self.n - n + 1) of the two loops of the Exact
\* cdf, as <<number, parts, size>>.
exact_calls_one_more(n, r) ==
    {c \in (0..(r + 1)) \X (1..n) \X (1..n) :
        /\ c[3] = n - c[2] + 1
        /\ binomial2(c[2]) <= r
        /\ c[2] <= c[1]
        /\ c[1] <= r - binomial2(c[2]) + 1}

exact_calls(n, r) ==
    {c \in (0..r) \X (1..n) \X (1..n) :
        /\ c[3] = n - c[2] + 1
        /\ binomial2(c[2]) <= r
        /\ c[2] <= c[1]
        /\ c[1] <= r - binomial2(c[2])}

\* The number of nested frames of partitions(number, parts, size), the call
\* itself included.
RECURSIVE partitions_depth(_, _, _)
partitions_depth(number, parts, size) ==
    IF number = parts THEN 1
    ELSE IF number = 0 \/ parts = 0 \/ size = 0 THEN 1
    ELSE LET top == Min(number, size)
             below == {partitions_depth(number - highest_part, parts - 1,
                                        highest_part) : highest_part \in 1..top}
         IN 1 + (CHOOSE d \in below : \A e \in below : e <= d)

\* Whether some frame of partitions(number, parts, size) computes a
\* negative number - highest_part or parts - 1 (usize arithmetic).
RECURSIVE partitions_underflows(_, _, _)
partitions_underflows(number, parts, size) ==
    IF number = parts THEN FALSE
    ELSE IF number = 0 \/ parts = 0 \/ size = 0 THEN FALSE
    ELSE LET top == Min(number, size)
         IN \E highest_part \in 1..top :
                \/ number - highest_part < 0
                \/ parts - 1 < 0
                \/ partitions_underflows(number - highest_part, parts - 1,
                                         highest_part)

exact_sum_from_zero(n, r) ==
    SumOver(1..n,
        [k \in 1..n |->
            IF binomial2(k) > r THEN 0
            ELSE SumOver(k..(r - binomial2(k)),
                     [i \in k..(r - binomial2(k)) |-> partitions(i, k, n - k + 1)])])

exact_sum(n, r) ==
    1 + SumOver(exact_calls(n, r),
            [c \in exact_calls(n, r) |-> partitions(c[1], c[2], c[3])])

\* `as usize` of an integral f64: a negative value saturates to 0.
as_usize(v) == IF v < 0 THEN 0 ELSE v

\* x.ceil() of x = x4/4
ceil(x4) == (x4 + 3) \div 4

\* The Exact arm of cdf at x = x4/4: r = x.ceil() as usize, and
\* sum as f64 / 2_f64.powi(n - 1), kept as the fraction num/den.
cdf_exact_abs(n, x4) ==
    LET r == abs(ceil(x4))
        sum == exact_sum(n, r)
    IN IF n >= 1 THEN [kind |-> "Exact", num |-> sum, den |-> Pow2(n - 1)]
       ELSE [kind |-> "Exact", num |-> 2 * sum, den |-> 1]

cdf_exact(n, x4) ==
    LET r == as_usize(ceil(x4))
        sum == exact_sum(n, r)
    IN IF n >= 1 THEN [kind |-> "Exact", num |-> sum, den |-> Pow2(n - 1)]
       ELSE [kind |-> "Exact", num |-> 2 * sum, den |-> 1]

\* The Normal arm of cdf: 2 * Phi((x - mu) / sigma), mu = n(n+1)/4,
\* sigma^2 = n(n+1)(2n+1)/24 - C/48.  Phi is not evaluated: the value is
\* kept as the arguments that determine it.
cdf_normal(n, tie_correction, x4) ==
    [kind |-> "Normal", n |-> n, tie_correction |-> tie_correction, x4 |-> x4]

SignedRank_exact(n) == [ok |-> TRUE, approximation |-> "Exact", n |-> n, tie_correction |-> 0]

\* 48 * sigma^2 of the Normal approximation.
variance48(n, tie_correction) == 2 * n * (n + 1) * (2 * n + 1) - tie_correction

\* Normal::new fails unless the standard deviation is a positive number.
SignedRank_approximate(n, tie_correction) ==
    IF variance48(n, tie_correction) <= 0
    THEN [ok |-> FALSE, error |-> "BadDistribution"]
    ELSE [ok |-> TRUE, approximation |-> "Normal", n |-> n,
          tie_correction |-> tie_correction]

\* SignedRank::new(n, zeroes, tie_correction), for zeroes <= n.
SignedRank_new_threshold_only(n, zeros, tie_correction) ==
    IF (n - zeros) >= 20
    THEN SignedRank_approximate(n - zeros, tie_correction)
    ELSE SignedRank_exact(n)

SignedRank_new(n, zeros, tie_correction) ==
    IF zeros > 0 \/ tie_correction > 0 \/ (n - zeros) >= 20
    THEN SignedRank_approximate(n - zeros, tie_correction)
    ELSE SignedRank_exact(n)

SignedRank_cdf(dist, x4) ==
    IF dist.approximation = "Exact" THEN cdf_exact(dist.n, x4)
    ELSE cdf_normal(dist.n, dist.tie_correction, x4)

\* Continuous::pdf: the Normal arm is normal.pdf(x), kept as the arguments
\* that determine it; the Exact arm is todo!(), which panics.
SignedRank_pdf(dist, x4) ==
    IF dist.approximation = "Exact" THEN [kind |-> "panic"]
    ELSE [kind |-> "NormalPdf", n |-> dist.n, tie_correction |-> dist.tie_correction,
          x4 |-> x4]

\* Whether the value a cdf result stands for is at most 1.  For the Normal
\* arm, 2 * Phi(z) <= 1 exactly when z <= 0, that is x <= mu = n(n+1)/4.
AtMostOne(p) ==
    IF p.kind = "Exact" THEN p.num <= p.den
    ELSE p.x4 <= p.n * (p.n + 1)

----------------------------------------------------------------------------
(* Inputs                                                                  *)

Zeros(n) == [i \in 1..n |-> 0]
Ones(n) == [i \in 1..n |-> 1]

\* tests::paired_i8..i64 / weighted_paired_i8..i64 and tests::paired2_i8..i64
FixtureX == <<16, 12, 11, 22, 17, 10, 12, 12>>
FixtureY == <<17, 18, 13, 21, 18, 14, 13, 14>>
Fixture2X == <<109, 100, 77, 69, 59, 69, 87, 98>>
Fixture2Y == <<121, 68, 47, 64, 66, 63, 76, 88>>

Values == (0 - MaxVal)..MaxVal

RanksInputs ==
    {[call |-> "ranks", x |-> s, y |-> <<>>, occurrences |-> <<>>] :
        s \in SeqsUpTo(0..MaxRankVal, MaxRankLen)}

\* paired passes core::iter::repeat(()): one unit weight for every pair.
PairedInputs ==
    {[call |-> "paired", x |-> s, y |-> Zeros(Len(s)), occurrences |-> Ones(Len(s))] :
        s \in SeqsUpTo(Values, MaxLen)}
    \cup {[call |-> "paired", x |-> FixtureX, y |-> FixtureY, occurrences |-> Ones(8)],
          [call |-> "paired", x |-> Fixture2X, y |-> Fixture2Y, occurrences |-> Ones(8)]}

WeightedInputs ==
    UNION {{[call |-> "weighted_paired", x |-> s, y |-> Zeros(Len(s)),
             occurrences |-> w] :
                w \in [1..Len(s) -> 1..MaxWeight]} :
            s \in SeqsUpTo(Values, MaxWLen)}
    \cup {[call |-> "weighted_paired", x |-> FixtureX, y |-> FixtureY,
           occurrences |-> Ones(8)]}

\* paired(x, y) and weighted_paired(x, y, occurrences) with x and y of
\* different lengths.
MismatchedInputs ==
    {in \in {[call |-> c, x |-> [i \in 1..k |-> v], y |-> Zeros(m),
              occurrences |-> Ones(k)] :
                c \in {"paired", "weighted_paired"}, v \in Values,
                k \in 0..MaxWLen, m \in 0..MaxWLen} :
        Len(in.x) # Len(in.y)}

\* paired(x, y) with all differences zero but the last.
ZeroHeavyInputs ==
    {[call |-> "paired", x |-> Zeros(k) \o <<v>>, y |-> Zeros(k + 1),
      occurrences |-> Ones(k + 1)] :
        k \in 1..MaxZeros, v \in Values \ {0}}

\* tests::mann_whitney_u_2
FixtureUX == <<68, 68, 59, 72, 64, 67, 70, 74>>
FixtureUY == <<60, 67, 61, 62, 67, 63, 56, 58>>

\* independent(x, y) on two non-empty samples.
IndependentInputs ==
    {[call |-> "independent", x |-> s, y |-> t, occurrences |-> <<>>] :
        s \in SeqsUpTo(1..MaxUVal, MaxULen) \ {<<>>},
        t \in SeqsUpTo(1..MaxUVal, MaxULen) \ {<<>>}}
    \cup {[call |-> "independent", x |-> FixtureUX, y |-> FixtureUY,
           occurrences |-> <<>>]}

Inputs ==
    RanksInputs \cup PairedInputs \cup ZeroHeavyInputs \cup WeightedInputs
    \cup MismatchedInputs
    \cup IndependentInputs

\* quantized_paired::<_, _, Q>(x, y) on floats with integral values.
QValues == (0 - MaxQVal)..MaxQVal

QuantizedInputs ==
    {[call |-> "quantized_paired", x |-> s, y |-> Zeros(m),
      occurrences |-> Ones(Len(s)), args |-> [Q |-> Q]] :
        s \in SeqsUpTo(QValues, MaxQLen), m \in 0..MaxQLen, Q \in {I8, I16}}

\* The tie corrections a single tie group of up to MaxTie members gives.
TieCorrections == {tie_term(k) : k \in 1..MaxTie}

\* SignedRank::new(n, zeroes, tie_correction)
NewCalls ==
    {[call |-> "new", args |-> [n |-> n, zeros |-> z, tie_correction |-> c]] :
        n \in 0..MaxN, z \in 0..MaxN, c \in TieCorrections}

\* The distributions cdf and pdf are called on: SignedRank::exact(n) and
\* the Normal approximations new() builds.
Distributions ==
    {SignedRank_exact(n) : n \in 1..MaxExactN}
    \cup {d \in {SignedRank_approximate(n, c) : n \in 1..MaxExactN, c \in TieCorrections} :
            d.ok}

\* The points x = x4/4, in steps of a quarter, from below the support
\* [0, n(n+1)/2] to above it.
Points(n) == (0 - 2 * MaxBeyond)..(2 * n * (n + 1) + 2 * MaxBeyond)

\* distribution.cdf(x)
CdfCalls ==
    UNION {{[call |-> "cdf", args |-> [dist |-> d, x4 |-> x4]] : x4 \in Points(d.n)} :
            d \in Distributions}

\* tests::n_8, n_9, n_10, n_11: <<n, w, s>> for an assertion
\* exact(n).cdf(w) = s / 2^(n-1).
Tabulated ==
    {<<8, 4, 7>>, <<8, 3, 5>>, <<8, 2, 3>>,
     <<9, 6, 14>>, <<9, 3, 5>>, <<9, 2, 3>>,
     <<10, 8, 25>>, <<10, 5, 10>>, <<10, 3, 5>>,
     <<11, 11, 55>>, <<11, 7, 19>>, <<11, 5, 10>>}

TabulatedCalls ==
    {[call |-> "cdf", args |-> [dist |-> SignedRank_exact(t[1]), x4 |-> 4 * t[2]]] :
        t \in Tabulated}

\* distribution.pdf(x)
PdfCalls ==
    UNION {{[call |-> "pdf", args |-> [dist |-> d, x4 |-> x4]] : x4 \in Points(d.n)} :
            d \in Distributions}

\* SignedRank::partitions(number, parts, size)
PartitionsCalls ==
    {[call |-> "partitions", args |-> [number |-> n, parts |-> p, size |-> s]] :
        n \in 0..MaxNumber, p \in 0..MaxParts, s \in 0..MaxSize}

\* Q::quantize(value, factor) for value a multiple of 1/2 and factor a
\* positive integer.
QuantizeCalls ==
    {[call |-> "quantize",
      args |-> [value |-> Fraction(a, 2), factor |-> Fraction(f, 1), Q |-> Q]] :
        a \in (0 - 2 * MaxFactor)..(2 * MaxFactor), f \in 1..MaxFactor, Q \in {I8, I16}}

FunctionCalls ==
    {in \in NewCalls : in.args.zeros <= in.args.n}
    \cup CdfCalls \cup TabulatedCalls \cup PdfCalls \cup PartitionsCalls
    \cup QuantizeCalls

NoResult == [kind |-> "none"]

Init ==
    /\ \/ \E in \in Inputs :
             /\ call = in.call
             /\ args = <<>>
             /\ x = in.x
             /\ y = in.y
             /\ occurrences = in.occurrences
       \/ \E in \in QuantizedInputs :
             /\ call = in.call
             /\ args = in.args
             /\ x = in.x
             /\ y = in.y
             /\ occurrences = in.occurrences
       \/ \E in \in FunctionCalls :
             /\ call = in.call
             /\ args = in.args
             /\ x = <<>>
             /\ y = <<>>
             /\ occurrences = <<>>
    /\ pc = "start"
    /\ observations = <<>>
    /\ deltas = <<>>
    /\ tie_solver = ResolveTies_new(<<>>, "id")
    /\ ranks = <<>>
    /\ estimate = <<0, 0>>
    /\ zeroes = 0
    /\ result = NoResult

----------------------------------------------------------------------------
(* statistics/ranks.rs: Ranks::ranks                                       *)

\* The index (1-based here, 0-based in the code) and the value of an
\* observation.
Obs(index, value) == [index |-> index, value |-> value]

\* enumerate().collect(), sort_unstable_by on the values leaving the
\* positions in the order o, and the construction of resolved_ties and of
\* ranks = vec![0.0; len].
ranks_collect(s, o) ==
    LET obs == [i \in 1..Len(s) |-> Obs(o[i], s[o[i]])]
    IN [observations |-> obs,
        tie_solver |-> ResolveTies_new(
                           [i \in 1..Len(s) |-> WeightedTuple(obs[i].value, 1)], "id"),
        ranks |-> Zeros(Len(s))]

\* One iteration of the for loop over resolved_ties zipped with the old
\* indices: ranks[old_index] = rank.
ranks_step(st) ==
    LET step == ResolveTies_next(st.tie_solver)
        old_index ==
            st.observations[Len(st.observations) - Len(st.tie_solver.iter) + 1].index
    IN [st EXCEPT !.tie_solver = step.rt, !.ranks[old_index] = step.rank]

\* (ranks, resolved_ties.tie_correction())
ranks_value(st) ==
    [kind |-> "Ranks", ranks |-> st.ranks,
     tie_correction |-> st.tie_solver.tie_correction]

\* The whole of ranks() on s when the sort leaves the positions in order o.
RECURSIVE ranks_drain(_)
ranks_drain(st) ==
    IF st.tie_solver.iter = <<>> THEN ranks_value(st) ELSE ranks_drain(ranks_step(st))

ranks_of(s, o) == ranks_drain(ranks_collect(s, o))

RanksState == [observations |-> observations, tie_solver |-> tie_solver, ranks |-> ranks]

ranks_sort ==
    /\ pc = "start"
    /\ call = "ranks"
    /\ \E o \in sorted_orders(x) :
          LET st == ranks_collect(x, o)
          IN /\ observations' = st.observations
             /\ tie_solver' = st.tie_solver
             /\ ranks' = st.ranks
    /\ pc' = "loop"
    /\ UNCHANGED <<call, args, x, y, occurrences, deltas, estimate, zeroes, result>>

ranks_loop ==
    /\ pc = "loop"
    /\ call = "ranks"
    /\ tie_solver.iter # <<>>
    /\ LET st == ranks_step(RanksState)
       IN /\ tie_solver' = st.tie_solver
          /\ ranks' = st.ranks
    /\ UNCHANGED <<call, args, x, y, occurrences, pc, observations, deltas, estimate,
                   zeroes, result>>

ranks_return ==
    /\ pc = "loop"
    /\ call = "ranks"
    /\ tie_solver.iter = <<>>
    /\ result' = ranks_value(RanksState)
    /\ pc' = "done"
    /\ UNCHANGED <<call, args, x, y, occurrences, observations, deltas, tie_solver,
                   ranks, estimate, zeroes>>

----------------------------------------------------------------------------
(* test/mann_whitney_u.rs: MannWhitneyUTest::independent                   *)

\* The body of independent(xs, ys) when the sort of ranks() leaves the
\* positions in order o.  Ranks and estimates are doubled.  The variance
\* n_xy (n + 1 - C / (n (n - 1))) / 12 is positive unless
\* C = (n + 1) n (n - 1), and Normal::new fails on a standard deviation
\* that is not positive.  The p_value 2 * normal.cdf(estimate_small) is kept
\* as the arguments that determine it, effect_size as a fraction.
MannWhitneyU_independent(xs, ys, o) ==
    LET rk == ranks_of(xs \o ys, o)
        n_x == Len(xs)
        n_y == Len(ys)
        n_xy == n_x * n_y
        estimate2 == n_x * (n_x + 1) - SumSeq(SubSeq(rk.ranks, 1, n_x))
        estimate_x == 2 * n_xy + estimate2
        estimate_y == 0 - estimate2
        estimate_small == IF estimate2 < 0 THEN estimate_x ELSE estimate_y
        n == n_x + n_y
    IN IF (n + 1) * n * (n - 1) - rk.tie_correction <= 0
       THEN [kind |-> "Err", error |-> "Normal::new"]
       ELSE [kind |-> "MannWhitneyU",
             effect_size |-> Fraction(2 * n_xy - 2 * estimate_small, 2 * n_xy),
             estimate |-> <<estimate_x, estimate_y>>,
             p_value |-> [mean2 |-> n_xy, n |-> n,
                          tie_correction |-> rk.tie_correction,
                          x2 |-> estimate_small]]

independent ==
    /\ pc = "start"
    /\ call = "independent"
    /\ \E o \in sorted_orders(x \o y) :
          result' = MannWhitneyU_independent(x, y, o)
    /\ pc' = "done"
    /\ UNCHANGED <<call, args, x, y, occurrences, observations, deltas, tie_solver,
                   ranks, estimate, zeroes>>

----------------------------------------------------------------------------
(* test/wilcoxon_w.rs: WilcoxonWTest::_weighted_paired                     *)

IsWilcoxon == call \in {"paired", "weighted_paired"}

\* The delta closure of weighted_paired: (a - b, w) for every pair.
delta(xs, ys, occ) == [i \in 1..Len(xs) |-> WeightedTuple(xs[i] - ys[i], occ[i])]

\* What assert_eq!(x_len, y_len, "Samples must have the same length")
\* panics on.
lengths_differ_x_longer(xs, ys) == Len(xs) > Len(ys)

lengths_differ(xs, ys) == Len(xs) # Len(ys)

\* assert_eq!(x_len, y_len) and the call of the delta closure.
weighted_paired_delta ==
    /\ pc = "start"
    /\ IsWilcoxon
    /\ IF lengths_differ(x, y)
       THEN /\ pc' = "panic"
            /\ deltas' = deltas
       ELSE /\ pc' = "sort"
            /\ deltas' = delta(x, y, occurrences)
    /\ UNCHANGED <<call, args, x, y, occurrences, observations, tie_solver, ranks,
                   estimate, zeroes, result>>

\* The sort key of the sort closure: a.abs() compared with b.abs().
AbsKeys(d) == [i \in 1..Len(d) |-> abs(d[i].value)]

\* The construction of tie_solver, estimate and zeroes over sorted deltas.
tie_solver_new(sorted) ==
    [tie_solver |-> ResolveTies_new(sorted, "abs"), estimate |-> <<0, 0>>, zeroes |-> 0]

\* The body of the for loop for one (rank, WeightedTuple {value: delta, occurrences}).
Accumulate(acc, rank, item) ==
    IF item.value < 0
    THEN [acc EXCEPT !.estimate[1] = @ + rank * to_occurrence(item)]
    ELSE IF item.value > 0
    THEN [acc EXCEPT !.estimate[2] = @ + rank * to_occurrence(item)]
    ELSE [acc EXCEPT !.zeroes = @ + to_occurrence(item)]

\* One iteration of the for loop over &mut tie_solver.
loop_step(st) ==
    LET step == ResolveTies_next(st.tie_solver)
    IN Accumulate([st EXCEPT !.tie_solver = step.rt], step.rank, step.item)

\* estimate_small, doubled
estimate_small(est) == IF est[1] < est[2] THEN est[1] ELSE est[2]

\* Lines 372-388 for zeroes <= x_len: the distribution, the p-value and
\* the effect size estimate_small / (n (n + 1) / 2).
Finish_fallback_exact(x_len, est, zs, tie_correction) ==
    LET distribution == SignedRank_new(x_len, zs, tie_correction)
    IN [kind |-> "Ok",
        estimate |-> est,
        effect_size |-> [num |-> estimate_small(est), den |-> x_len * (x_len + 1)],
        p_value |-> SignedRank_cdf(
                        IF distribution.ok THEN distribution ELSE SignedRank_exact(x_len),
                        2 * estimate_small(est))]

Finish(x_len, est, zs, tie_correction) ==
    LET distribution == SignedRank_new(x_len, zs, tie_correction)
    IN IF ~distribution.ok
       THEN [kind |-> "Err", error |-> distribution.error]
       ELSE [kind |-> "Ok",
             estimate |-> est,
             effect_size |-> [num |-> estimate_small(est), den |-> x_len * (x_len + 1)],
             p_value |-> SignedRank_cdf(distribution, 2 * estimate_small(est))]

\* What the loop and lines 372-388 make of deltas the sort left as `sorted`
\* (for zeroes <= x_len): the final estimate, zeroes, tie correction and
\* the returned value.
RECURSIVE loop_drain(_)
loop_drain(st) == IF st.tie_solver.iter = <<>> THEN st ELSE loop_drain(loop_step(st))

outcome_of(sorted) ==
    LET st == loop_drain(tie_solver_new(sorted))
    IN [estimate |-> st.estimate, zeroes |-> st.zeroes,
        tie_correction |-> st.tie_solver.tie_correction,
        result |-> Finish(Len(sorted), st.estimate, st.zeroes,
                          st.tie_solver.tie_correction)]

LoopState == [tie_solver |-> tie_solver, estimate |-> estimate, zeroes |-> zeroes]

IsQuantized == call = "quantized_paired"

\* The fold of lines 295-305: the largest |a - b|, starting from ZERO.
max_delta(xs, ys) ==
    LET S == {abs(xs[i] - ys[i]) : i \in 1..Len(xs)} \cup {0}
    IN CHOOSE m \in S : \A k \in S : k <= m

\* let reciprocal = ONE / max: 1 / 0.0 is +infinity.
reciprocal(max) == Fraction(1, max)

\* The delta closure of _quantized_weighted_paired past its two asserts:
\* the outcomes of Q::quantize(a - b, reciprocal) over the pairs.  A
\* build with debug assertions panics at the first pair that fails a
\* debug_assert!; a build without them quantizes every pair.
quantized_delta(xs, ys, occ, Q) ==
    LET factor == reciprocal(max_delta(xs, ys))
        value == [i \in 1..Len(xs) |-> Fraction(xs[i] - ys[i], 1)]
        all == [kind |-> "Value",
                value |-> [i \in 1..Len(xs) |->
                              WeightedTuple(quantize_value(value[i], factor, Q), occ[i])]]
    IN IF \A i \in 1..Len(xs) : quantize_asserts(value[i], factor)
       THEN {all}
       ELSE {[kind |-> "panic"], all}

\* assert_eq!(x_len, y_len) of _weighted_paired, then the delta closure
\* of _quantized_weighted_paired with its assert_eq! and assert_ne!.
quantized_paired_delta ==
    /\ pc = "start"
    /\ IsQuantized
    /\ IF lengths_differ(x, y) \/ Len(x) = 0
       THEN /\ pc' = "panic"
            /\ deltas' = deltas
       ELSE \E outcome \in quantized_delta(x, y, occurrences, args.Q) :
               IF outcome.kind = "panic"
               THEN /\ pc' = "panic"
                    /\ deltas' = deltas
               ELSE /\ pc' = "sort"
                    /\ deltas' = outcome.value
    /\ UNCHANGED <<call, args, x, y, occurrences, observations, tie_solver, ranks,
                   estimate, zeroes, result>>

\* The sort key of the sort closure on quantized values.
QuantizedAbsKeys(d, Q) == [i \in 1..Len(d) |-> wrapping_abs(d[i].value, Q)]

quantized_tie_solver_new(sorted, Q) ==
    [tie_solver |-> ResolveTies_new(sorted, Q.name), estimate |-> <<0, 0>>, zeroes |-> 0]

\* sort(&mut deltas) and the construction of tie_solver, estimate, zeroes
\* on quantized deltas.  abs() of a delta equal to Q::MIN overflows, in
\* the sort closure or in the tie solver: a build with overflow checks
\* panics (the panic is placed here), a build without them goes on with
\* the wrapped value.
quantized_paired_sort ==
    /\ pc = "sort"
    /\ IsQuantized
    /\ \/ /\ \E i \in 1..Len(deltas) : deltas[i].value = args.Q.MIN
          /\ pc' = "panic"
          /\ UNCHANGED <<deltas, tie_solver, estimate, zeroes>>
       \/ /\ \E o \in sorted_orders(QuantizedAbsKeys(deltas, args.Q)) :
                deltas' = Arrange(deltas, o)
          /\ LET st == quantized_tie_solver_new(deltas', args.Q)
             IN /\ tie_solver' = st.tie_solver
                /\ estimate' = st.estimate
                /\ zeroes' = st.zeroes
          /\ pc' = "loop"
    /\ UNCHANGED <<call, args, x, y, occurrences, observations, ranks, result>>

\* The loop and lines 372-388 run for every variant.
InWeightedPaired == IsWilcoxon \/ IsQuantized

\* sort(&mut deltas), then the construction of tie_solver, estimate, zeroes.
weighted_paired_sort ==
    /\ pc = "sort"
    /\ IsWilcoxon
    /\ \E o \in sorted_orders(AbsKeys(deltas)) : deltas' = Arrange(deltas, o)
    /\ LET st == tie_solver_new(deltas')
       IN /\ tie_solver' = st.tie_solver
          /\ estimate' = st.estimate
          /\ zeroes' = st.zeroes
    /\ pc' = "loop"
    /\ UNCHANGED <<call, args, x, y, occurrences, observations, ranks, result>>

weighted_paired_loop ==
    /\ pc = "loop"
    /\ InWeightedPaired
    /\ tie_solver.iter # <<>>
    /\ LET st == loop_step(LoopState)
       IN /\ tie_solver' = st.tie_solver
          /\ estimate' = st.estimate
          /\ zeroes' = st.zeroes
    /\ UNCHANGED <<call, args, x, y, occurrences, pc, observations, deltas, ranks, result>>

\* With zeroes > x_len the subtraction n - zeroes of SignedRank::new
\* leaves usize: a build with overflow checks panics, a build without
\* them goes on with the wrapped value.
weighted_paired_finish ==
    /\ pc = "loop"
    /\ InWeightedPaired
    /\ tie_solver.iter = <<>>
    /\ IF zeroes <= Len(x)
       THEN /\ result' = Finish(Len(x), estimate, zeroes, tie_solver.tie_correction)
            /\ pc' = "done"
       ELSE \/ /\ pc' = "panic"
               /\ result' = result
            \/ /\ pc' = "done"
               /\ result' = [kind |-> "Wrapped", estimate |-> estimate]
    /\ UNCHANGED <<call, args, x, y, occurrences, observations, deltas, tie_solver,
                   ranks, estimate, zeroes>>

----------------------------------------------------------------------------
(* distribution/signed_rank.rs: calls of the functions of SignedRank       *)

\* SignedRank::new(n, zeroes, tie_correction) for zeroes <= n: the
\* distribution, or the error.
call_new ==
    /\ pc = "start"
    /\ call = "new"
    /\ result' = SignedRank_new(args.n, args.zeros, args.tie_correction)
    /\ pc' = "done"
    /\ UNCHANGED <<call, args, x, y, occurrences, observations, deltas, tie_solver,
                   ranks, estimate, zeroes>>

\* ContinuousCDF::cdf
call_cdf ==
    /\ pc = "start"
    /\ call = "cdf"
    /\ result' = SignedRank_cdf(args.dist, args.x4)
    /\ pc' = "done"
    /\ UNCHANGED <<call, args, x, y, occurrences, observations, deltas, tie_solver,
                   ranks, estimate, zeroes>>

\* Continuous::pdf
call_pdf ==
    /\ pc = "start"
    /\ call = "pdf"
    /\ LET value == SignedRank_pdf(args.dist, args.x4)
       IN IF value.kind = "panic"
          THEN /\ pc' = "panic"
               /\ result' = result
          ELSE /\ pc' = "done"
               /\ result' = value
    /\ UNCHANGED <<call, args, x, y, occurrences, observations, deltas, tie_solver,
                   ranks, estimate, zeroes>>

\* SignedRank::partitions
call_partitions ==
    /\ pc = "start"
    /\ call = "partitions"
    /\ result' = [kind |-> "Count",
                  value |-> partitions(args.number, args.parts, args.size)]
    /\ pc' = "done"
    /\ UNCHANGED <<call, args, x, y, occurrences, observations, deltas, tie_solver,
                   ranks, estimate, zeroes>>

----------------------------------------------------------------------------
(* traits/quantization.rs: a call of quantize                              *)

call_quantize ==
    /\ pc = "start"
    /\ call = "quantize"
    /\ \E outcome \in quantize(args.value, args.factor, args.Q) :
          IF outcome.kind = "panic"
          THEN /\ pc' = "panic"
               /\ result' = result
          ELSE /\ pc' = "done"
               /\ result' = outcome
    /\ UNCHANGED <<call, args, x, y, occurrences, observations, deltas, tie_solver,
                   ranks, estimate, zeroes>>

----------------------------------------------------------------------------

Next ==
    \/ ranks_sort
    \/ ranks_loop
    \/ ranks_return
    \/ weighted_paired_delta
    \/ weighted_paired_sort
    \/ weighted_paired_loop
    \/ weighted_paired_finish
    \/ quantized_paired_delta
    \/ quantized_paired_sort
    \/ call_new
    \/ call_cdf
    \/ call_pdf
    \/ call_partitions
    \/ call_quantize
    \/ independent

Spec == Init /\ [][Next]_vars

----------------------------------------------------------------------------
(* Properties of ranks()                                                   *)

RanksDone == pc = "done" /\ call = "ranks"

\* The number of elements of s strictly smaller than s[i], and equal to it.
Smaller(s, i) == Cardinality({j \in 1..Len(s) : s[j] < s[i]})
Equal(s, i) == Cardinality({j \in 1..Len(s) : s[j] = s[i]})

HasTie(s) == \E i, j \in 1..Len(s) : i # j /\ s[i] = s[j]

\* C5: ranks() gives every element the midrank of its tie group: with g
\* strictly smaller elements and k elements equal to it, itself included,
\* the rank is g + (k + 1) / 2 (doubled: 2g + k + 1), and the members of
\* one tie group all receive the same rank.
C5_Midrank ==
    RanksDone =>
        /\ \A i \in 1..Len(x) :
              result.ranks[i] = 2 * Smaller(x, i) + Equal(x, i) + 1
        /\ \A i, j \in 1..Len(x) :
              x[i] = x[j] => result.ranks[i] = result.ranks[j]

\* A finished ranking of an input with a tie group of two or more that
\* has a smaller element below it.
C5_Witness ==
    /\ RanksDone
    /\ \E i, j, k \in 1..Len(x) : i # j /\ x[i] = x[j] /\ x[k] < x[i]

\* C6: ranks() returns exactly n ranks, one per input index, and they sum
\* to n (n + 1) / 2, with or without ties (doubled: n (n + 1)).
C6_RankSum ==
    RanksDone =>
        /\ Len(result.ranks) = Len(x)
        /\ DOMAIN result.ranks = DOMAIN x
        /\ SumSeq(result.ranks) = Len(x) * (Len(x) + 1)

\* A finished ranking of a longest input that has a tie.
C6_Witness == RanksDone /\ Len(x) >= 3 /\ HasTie(x)

\* The sum of k^3 - k over the groups of equal values of s.
TieSum(s) ==
    LET vals == {s[i] : i \in 1..Len(s)}
        size == [v \in vals |-> Cardinality({i \in 1..Len(s) : s[i] = v})]
    IN SumOver(vals, [v \in vals |-> size[v] * size[v] * size[v] - size[v]])

\* C7: the tie correction returned with the ranks is the sum of k^3 - k
\* over the maximal groups of equal values; it is 0 exactly when all
\* values are distinct, and 0 for the empty input.
C7_TieCorrection ==
    RanksDone =>
        /\ result.tie_correction = TieSum(x)
        /\ (result.tie_correction = 0) <=> ~HasTie(x)
        /\ x = <<>> => result.tie_correction = 0

\* A finished ranking of an input with a tie group and a value outside it.
C7_Witness ==
    /\ RanksDone
    /\ HasTie(x)
    /\ \E i, j \in 1..Len(x) : x[i] # x[j]
    /\ result.tie_correction > 0

\* s with its positions permuted by p: position i holds s[p[i]].
Permuted(s, p) == [i \in 1..Len(s) |-> s[p[i]]]

\* C9: ranks() is permutation-equivariant.  For every permutation p of
\* the positions and every order the unstable sort may leave the permuted
\* input in, the element moved to position i receives the rank it has in
\* the ranking of the original, and the tie correction is the same.
C9_PermutationEquivariance ==
    RanksDone =>
        \A p \in Permutations(1..Len(x)) :
            \A o \in sorted_orders(Permuted(x, p)) :
                LET other == ranks_of(Permuted(x, p), o)
                IN /\ \A i \in 1..Len(x) : other.ranks[i] = result.ranks[p[i]]
                   /\ other.tie_correction = result.tie_correction

\* A finished ranking of an input that has a tie and is not constant, so
\* that some permutation moves elements and the sort has a choice.
C9_Witness ==
    /\ RanksDone
    /\ Len(x) >= 3
    /\ HasTie(x)
    /\ \E i, j \in 1..Len(x) : x[i] < x[j]

----------------------------------------------------------------------------
(* Properties of the Wilcoxon signed rank test                             *)

WilcoxonDone == pc = "done" /\ IsWilcoxon

\* The differences of the input, in input order.
Deltas == delta(x, y, occurrences)

\* The total occurrence count of the pairs whose |difference| is below,
\* and equal to, that of pair i.
WeightBelow(d, i) ==
    LET S == {j \in 1..Len(d) : abs(d[j].value) < abs(d[i].value)}
    IN SumOver(S, [j \in S |-> d[j].occurrences])
WeightEqual(d, i) ==
    LET S == {j \in 1..Len(d) : abs(d[j].value) = abs(d[i].value)}
    IN SumOver(S, [j \in S |-> d[j].occurrences])

\* The midrank of |difference i| (doubled): the average of the positions
\* p + 1 .. p + k its tie group of k occurrences fills after the p
\* occurrences below it.
Midrank(d, i) == 2 * WeightBelow(d, i) + WeightEqual(d, i) + 1

\* The sum of midrank * weight over the pairs of d with index in S.
RankSum(d, S) == SumOver(S, [i \in S |-> Midrank(d, i) * d[i].occurrences])

Negative(d) == {i \in 1..Len(d) : d[i].value < 0}
Positive(d) == {i \in 1..Len(d) : d[i].value > 0}
Zero(d) == {i \in 1..Len(d) : d[i].value = 0}

\* C1: the returned estimate is (W-, W+), W- the sum of rank * weight over
\* the pairs with a negative difference and W+ that over the pairs with a
\* positive one, rank being the midrank of |x_i - y_i|; a zero difference
\* adds to neither and adds its weight to the zeros count.
C1_SignedRankSums ==
    (WilcoxonDone /\ result.kind = "Ok") =>
        /\ result.estimate[1] = RankSum(Deltas, Negative(Deltas))
        /\ result.estimate[2] = RankSum(Deltas, Positive(Deltas))
        /\ zeroes = SumOver(Zero(Deltas), [i \in Zero(Deltas) |-> Deltas[i].occurrences])

\* C2: for an unweighted input, W- + W+ = n_eff (n_eff + 1) / 2 with
\* n_eff = n - zeros (doubled: n_eff (n_eff + 1)).
C2_RankSumIdentity ==
    (WilcoxonDone /\ call = "paired") =>
        estimate[1] + estimate[2] = (Len(x) - zeroes) * (Len(x) - zeroes + 1)

\* C3: the returned p_value lies in [0, 1]; on the Exact path (here for
\* paired on n >= 1 pairs) the value cdf(min(W-, W+)) is at most 1 for
\* every sign pattern, W- = W+ included.
C3_ExactPValueInUnitInterval ==
    (WilcoxonDone /\ call = "paired" /\ Len(x) >= 1 /\ result.kind = "Ok"
        /\ result.p_value.kind = "Exact") =>
        /\ 0 <= result.p_value.num
        /\ AtMostOne(result.p_value)

\* C4: for every input of n >= 1 pairs for which a result is returned,
\* effect_size = min(W-, W+) / (n (n + 1) / 2) and it lies in [0, 0.5].
C4_EffectSize ==
    (WilcoxonDone /\ result.kind = "Ok" /\ Len(x) >= 1) =>
        /\ result.effect_size.num = Min(result.estimate[1], result.estimate[2])
        /\ result.effect_size.den = Len(x) * (Len(x) + 1)
        /\ 0 <= result.effect_size.num
        /\ 2 * result.effect_size.num <= result.effect_size.den

\* The number of items the tie solver has yielded.
Yielded == Len(deltas) - Len(tie_solver.iter)

\* The sum of k^3 - k over the groups of equal |difference| of d, k being
\* the group's total occurrence count.
WeightedTieSum(d) ==
    LET mags == {abs(d[i].value) : i \in 1..Len(d)}
        first == [m \in mags |-> CHOOSE i \in 1..Len(d) : abs(d[i].value) = m]
        k == [m \in mags |-> WeightEqual(d, first[m])]
    IN SumOver(mags, [m \in mags |-> k[m] * k[m] * k[m] - k[m]])

C10_SortOrderIndependence ==
    (WilcoxonDone /\ result.kind \in {"Ok", "Err"}) =>
        \A o \in sorted_orders(AbsKeys(Deltas)) :
            outcome_of(Arrange(Deltas, o)) =
                [estimate |-> estimate, zeroes |-> zeroes,
                 tie_correction |-> tie_solver.tie_correction, result |-> result]

----------------------------------------------------------------------------
(* Properties of SignedRank::new                                           *)

NewDone == pc = "done" /\ call = "new"

\* Whether some two of the differences d have the same magnitude.
HasTiedMagnitude(d) ==
    \E i, j \in 1..Len(d) : i # j /\ abs(d[i].value) = abs(d[j].value)

WilcoxonEnded == InWeightedPaired /\ pc \in {"done", "panic"} /\ Len(x) = Len(y)

----------------------------------------------------------------------------
(* Properties of the Exact distribution                                    *)

ExactCdfDone ==
    /\ pc = "done"
    /\ call = "cdf"
    /\ args.dist.approximation = "Exact"

\* The largest value of the support, n (n + 1) / 2, in quarters.
Support4(n) == 2 * n * (n + 1)

\* The number of subsets of {1..n} whose elements sum to at most w.
SubsetsUpTo(n, w) ==
    Cardinality({S \in SUBSET (1..n) : SumOver(S, [i \in S |-> i]) <= w})

C14_ExactCdfEnds ==
    ExactCdfDone =>
        /\ args.x4 < 0 => result.num = 0
        /\ args.x4 = Support4(args.dist.n) => result.num = result.den

\* Whether the fraction a is at most the fraction b.
FractionLeq(a, b) == a.num * b.den <= b.num * a.den

\* C15: the Exact cdf is monotone non-decreasing, cdf(w1) <= cdf(w2) for
\* all w1 <= w2, integers or half-integers, inside or outside the support,
\* and it is constant for w >= n (n + 1) / 2.
C15_ExactCdfMonotone ==
    (ExactCdfDone /\ args.dist.n <= MaxExactN) =>
        /\ \A v4 \in Points(args.dist.n) :
              args.x4 <= v4 => FractionLeq(result, cdf_exact(args.dist.n, v4))
        /\ args.x4 >= Support4(args.dist.n) =>
              result = cdf_exact(args.dist.n, Support4(args.dist.n))

\* cdf at a half-integer inside the support of a distribution with n >= 3.
C15_Witness ==
    /\ ExactCdfDone
    /\ args.dist.n <= MaxExactN
    /\ args.dist.n >= 3
    /\ args.x4 % 4 = 2
    /\ 0 < args.x4
    /\ args.x4 < Support4(args.dist.n)

\* The sum of partitions(r - k (k - 1) / 2, k, n - k + 1) over the k in
\* 1..n with k (k - 1) / 2 <= r.
PdfSum(n, r) ==
    SumOver(1..n,
        [k \in 1..n |->
            IF binomial2(k) > r THEN 0
            ELSE partitions(r - binomial2(k), k, n - k + 1)])

\* C16: on the Exact distribution, pdf(w) at an integer w >= 0 returns
\* the sum of partitions(w - k (k - 1) / 2, k, n - k + 1) over k, divided
\* by 2^n: the call returns a value rather than aborting.
C16_ExactPdf ==
    (call = "pdf" /\ pc \in {"done", "panic"} /\ args.dist.approximation = "Exact"
        /\ args.x4 >= 0 /\ args.x4 % 4 = 0) =>
        /\ pc = "done"
        /\ result.num * Pow2(args.dist.n) = PdfSum(args.dist.n, args.x4 \div 4) * result.den

----------------------------------------------------------------------------
(* Properties of partitions                                                *)

PartitionsDone == pc = "done" /\ call = "partitions"

\* The ways to write number as a sum of exactly parts integers of 1..size,
\* each way listed once, largest part first: with repetition allowed, and
\* with all parts distinct.
WithRepetition(number, parts, size) ==
    {f \in [1..parts -> 1..size] :
        /\ \A i \in 1..(parts - 1) : f[i] >= f[i + 1]
        /\ SumSeq(f) = number}
Distinct(number, parts, size) ==
    {f \in [1..parts -> 1..size] :
        /\ \A i \in 1..(parts - 1) : f[i] > f[i + 1]
        /\ SumSeq(f) = number}

\* C17: partitions(number, parts, size) is the number of ways to write
\* number as a sum of exactly parts distinct positive integers, each at
\* most size (here for size >= 1).
C17_PartitionsDistinct ==
    (PartitionsDone /\ args.size >= 1) =>
        result.value = Cardinality(Distinct(args.number, args.parts, args.size))

\* C17, amended: for size >= 1, partitions(number, parts, size) is the
\* number of ways to write number as a sum of exactly parts positive
\* integers, each at most size, a part being allowed to repeat.
C17_PartitionsWithRepetition ==
    (PartitionsDone /\ args.size >= 1) =>
        result.value = Cardinality(WithRepetition(args.number, args.parts, args.size))

\* partitions(7, 3, 5), which the tests pin to 4.
C17_Witness ==
    /\ PartitionsDone
    /\ args = [number |-> 7, parts |-> 3, size |-> 5]
    /\ result.value = 4

----------------------------------------------------------------------------
(* Properties of quantize                                                  *)

\* A call of quantize that meets its preconditions, factor > 0 and
\* |value| <= factor, and has ended.
QuantizeEnded ==
    /\ call = "quantize"
    /\ pc \in {"done", "panic"}
    /\ args.factor.num > 0
    /\ abs(args.value.num) * args.factor.den <= args.factor.num * args.value.den

\* The numerator and the denominator of (value / factor) * UPPER_BOUND.
ScaledNum == args.value.num * args.factor.den * UPPER_BOUND(args.Q)
ScaledDen == args.value.den * args.factor.num

----------------------------------------------------------------------------
(* Properties of the quantized Wilcoxon test                               *)

\* A call of quantized_paired on n >= 1 pairs that is past the delta
\* closure, or was stopped in it.
QuantizedStarted ==
    /\ IsQuantized
    /\ Len(x) = Len(y)
    /\ Len(x) >= 1
    /\ pc # "start"

\* scale = max_i |x_i - y_i|
Scale == max_delta(x, y)

\* C19: in the quantized variant (on an input with a non-zero difference)
\* the factor handed to quantize is scale = max_i |x_i - y_i|, so the
\* preconditions factor > 0 and |v| <= factor of quantize hold and no
\* pair stops the call, and each quantized difference lies in
\* [LOWER_BOUND, UPPER_BOUND], never at Q::MIN, so the later abs() cannot
\* overflow.
C19_QuantizeFactorIsScale ==
    (QuantizedStarted /\ Scale > 0) =>
        /\ reciprocal(Scale).num = Scale * reciprocal(Scale).den
        /\ \A i \in 1..Len(x) :
              abs(x[i] - y[i]) * reciprocal(Scale).den <= reciprocal(Scale).num
        /\ pc # "panic"
        /\ \A i \in 1..Len(deltas) :
              /\ LOWER_BOUND(args.Q) <= deltas[i].value
              /\ deltas[i].value <= UPPER_BOUND(args.Q)

----------------------------------------------------------------------------
(* Properties of the validation of the input                               *)

\* C21: every Wilcoxon variant rejects samples of different lengths: the
\* call stops at once, before a difference is computed, sorted or ranked,
\* and never returns a result.
C21_LengthMismatch ==
    (InWeightedPaired /\ Len(x) # Len(y) /\ pc # "start") =>
        /\ pc = "panic"
        /\ deltas = <<>>
        /\ tie_solver.iter = <<>>
        /\ estimate = <<0, 0>>
        /\ zeroes = 0
        /\ result = NoResult

\* A stopped call of weighted_paired with x shorter than y.
C21_Witness ==
    /\ call = "weighted_paired"
    /\ 1 <= Len(x)
    /\ Len(x) < Len(y)
    /\ pc = "panic"

\* C22: every Wilcoxon variant rejects the empty input (n = 0) and never
\* returns a result for it.
C22_EmptyInput ==
    (InWeightedPaired /\ Len(x) = 0 /\ Len(y) = 0) => pc # "done"

----------------------------------------------------------------------------
(* Properties of quantize into i8                                          *)

\* A finished call of quantize::<i8> with factor 1.0 on the value v2 / 2.
QuantizeI8Done(v2) ==
    /\ call = "quantize"
    /\ pc = "done"
    /\ args.Q = I8
    /\ args.factor = Fraction(1, 1)
    /\ args.value = Fraction(v2, 2)

----------------------------------------------------------------------------
(* More properties of the Exact cdf                                        *)

\* C24: in the Exact cdf, for an integer r in [0, n (n + 1) / 2] the
\* accumulated `sum` is the number of subsets of {1..n}, the empty set
\* included, whose elements sum to at most r, and the returned value is
\* sum / 2^(n-1); this gives the tabulated values of the tests for
\* n = 8, 9, 10, 11.
C24_ExactCdfSum ==
    (ExactCdfDone /\ args.dist.n >= 1 /\ args.x4 % 4 = 0 /\ 0 <= args.x4
        /\ args.x4 <= Support4(args.dist.n)) =>
        LET n == args.dist.n
            r == args.x4 \div 4
        IN /\ exact_sum(n, r) = SubsetsUpTo(n, r)
           /\ result.num = exact_sum(n, r)
           /\ result.den = Pow2(n - 1)
           /\ \A t \in Tabulated : (t[1] = n /\ t[2] = r) => result.num = t[3]

\* exact(11).cdf(11.0) = 55 / 1024
C24_Witness ==
    /\ ExactCdfDone
    /\ args.dist.n = 11
    /\ args.x4 = 44
    /\ result = [kind |-> "Exact", num |-> 55, den |-> 1024]

\* C25: the Exact cdf evaluates a non-integer argument at the nearest
\* integer: for an integer m >= 0, cdf(m + 1/4) = cdf(m) and
\* cdf(m + 3/4) = cdf(m + 1).
C25_ExactCdfRounds ==
    (ExactCdfDone /\ args.x4 >= 0) =>
        /\ args.x4 % 4 = 1 => result = cdf_exact(args.dist.n, args.x4 - 1)
        /\ args.x4 % 4 = 3 => result = cdf_exact(args.dist.n, args.x4 + 1)

----------------------------------------------------------------------------
(* More properties of partitions                                           *)

\* The multisets of exactly parts integers of 1..size that sum to number,
\* a multiset given by the multiplicity of each value.
Multisets(number, parts, size) ==
    {m \in [1..size -> 0..parts] :
        /\ SumOver(1..size, m) = parts
        /\ SumOver(1..size, [v \in 1..size |-> v * m[v]]) = number}

\* C26: for size >= 1, partitions(number, parts, size) is the number of
\* multisets of exactly parts positive integers, each at most size and
\* repetition allowed, that sum to number; partitions(7, 3, 5) = 4, and
\* the value is 0 whenever number < parts or number > parts * size.
C26_PartitionsMultisets ==
    (PartitionsDone /\ args.size >= 1) =>
        /\ result.value = Cardinality(Multisets(args.number, args.parts, args.size))
        /\ (args.number = 7 /\ args.parts = 3 /\ args.size = 5) => result.value = 4
        /\ (args.number < args.parts \/ args.number > args.parts * args.size)
               => result.value = 0

\* partitions(6, 3, 2) = 1: the one multiset is {2, 2, 2}.
C26_Witness ==
    /\ PartitionsDone
    /\ args = [number |-> 6, parts |-> 3, size |-> 2]
    /\ result.value = 1

----------------------------------------------------------------------------
(* The recursion of partitions under the Exact cdf                         *)

\* C27: every call partitions(i, k, n - k + 1) the Exact cdf makes, for
\* 1 <= k <= n < 20 and w within the support [0, n (n + 1) / 2],
\* terminates, never underflows number - highest_part or parts - 1, and
\* nests at most n frames deep.
C27_PartitionsCallsBounded ==
    (ExactCdfDone /\ args.dist.n >= 1 /\ args.dist.n < 20 /\ 0 <= args.x4
        /\ args.x4 <= Support4(args.dist.n)) =>
        \A c \in exact_calls(args.dist.n, as_usize(ceil(args.x4))) :
            /\ c[2] \in 1..args.dist.n
            /\ c[3] = args.dist.n - c[2] + 1
            /\ ~partitions_underflows(c[1], c[2], c[3])
            /\ partitions_depth(c[1], c[2], c[3]) <= args.dist.n

\* exact(5).cdf(15.0): a call of the cdf nests exactly n = 5 frames.
C27_Witness ==
    /\ ExactCdfDone
    /\ args.dist.n = 5
    /\ args.x4 = Support4(5)
    /\ \E c \in exact_calls(5, 15) : partitions_depth(c[1], c[2], c[3]) = 5

----------------------------------------------------------------------------
(* The zeros handed to SignedRank::new                                     *)

\* C28: in every run of the Wilcoxon test, weighted_paired with weights
\* above 1 on zero differences included, the zeros passed to
\* SignedRank::new never exceed n, the number of pairs, so that
\* n_eff = n - zeros cannot underflow.
C28_ZeroesAtMostN ==
    (InWeightedPaired /\ pc \in {"loop", "done", "panic"}) => zeroes <= Len(x)

----------------------------------------------------------------------------
(* The variance of the Normal approximation in unweighted runs             *)

\* C29: for every unweighted input with n >= 1 and at least one non-zero
\* difference, the tie correction C and the zeros the test computes keep
\* sigma^2 = n_eff (n_eff + 1) (2 n_eff + 1) / 24 - C / 48 strictly
\* positive, so that the test never ends in BadDistribution (also when most
\* differences are zero and form one large tie group).
C29_VariancePositive ==
    (call = "paired" /\ WilcoxonEnded /\ Len(x) >= 1
        /\ \E i \in 1..Len(x) : x[i] # y[i]) =>
        /\ variance48(Len(x) - zeroes, tie_solver.tie_correction) > 0
        /\ result # [kind |-> "Err", error |-> "BadDistribution"]

----------------------------------------------------------------------------
(* The Mann-Whitney U test                                                 *)

IndependentDone == pc = "done" /\ call = "independent" /\ result.kind = "MannWhitneyU"

\* C30: in MannWhitneyUTest::independent on non-empty x and y,
\* U_x + U_y = n_x n_y, both estimates lie in [0, n_x n_y], and
\* estimate_small is min(U_x, U_y) for every input (for example
\* x = [1, 3], y = [2, 4]).  Estimates are doubled here.
C30_MannWhitneyEstimates ==
    (IndependentDone /\ Len(x) >= 1 /\ Len(y) >= 1) =>
        LET n_xy == Len(x) * Len(y)
            U_x == result.estimate[1]
            U_y == result.estimate[2]
        IN /\ U_x + U_y = 2 * n_xy
           /\ 0 <= U_x /\ U_x <= 2 * n_xy
           /\ 0 <= U_y /\ U_y <= 2 * n_xy
           /\ result.p_value.x2 = Min(U_x, U_y)

====
